---- MODULE Spec2Model ----
(***************************************************************************)
(* Model of the workflow orchestration core of ERP-AI-Agents:              *)
(*   - WorkflowManager (services/orchestration_engine/workflow_manager.py) *)
(*     with its database rows, the Celery queue and the consumer           *)
(*     processes that run execute_workflow;                                *)
(*   - AgentManager (agent_manager.py), the worker registry;               *)
(*   - AnalyticsManager.log_event (analytics_manager.py), the event sink;  *)
(*   - Team (packages/agent_framework/team.py), the strategy executor.     *)
(*                                                                         *)
(* Every await of the Python code is a point where another coroutine or    *)
(* another worker process may run, so every database statement and every   *)
(* remote call is one step of the model.                                   *)
(***************************************************************************)
EXTENDS Integers, Sequences, FiniteSets, TLC

\* ---------------------------------------------------------------- bounds
\* Number of create calls (workflow ids).
MaxWorkflows == 1
\* Longest task list of a workflow.
MaxTasks == 2
\* How many times the broker may deliver a message again.
MaxRedeliver == 1
\* Longest member list of a team configuration.
MaxMembers == 2
\* Number of register_agent calls on one registry.
MaxRegister == 3
MaxFollowers == 2
\* Number of requests the rate limiter is called for, and of clock advances
\* between them.
MaxCalls == 4
MaxAdvances == 3
\* The limits the RateLimiter is constructed with.
requests_per_minute == 2
requests_per_hour == 3
burst_limit == 1

WorkflowIds == 1..MaxWorkflows
\* Two consumer processes, so that two executions interleave.
Consumers == {1, 2}
\* users.id is an autoincrement primary key: real owners are 1, 2, ...
Users == {1, 2}
\* A value that is falsy in Python (None, the default of user_id, or 0).
NoUser == 0
\* Every value a caller may pass as user_id to the query methods.
OwnerValues == {NoUser} \cup Users
Names == {"wf"}

\* ------------------------------------------------------- worker registry
None == "None"
GENERIC_AGENT_URL == "http://generic-agent:5000"
\* The registry of the consumer process: the agents tasks.py registers (with
\* a url) and one loaded from a definition file that carries no url.
ConsumerRegistry ==
  [seo_agent_001 |-> [url |-> "http://seo-agent:5001"],
   generic_001 |-> [name |-> "Generic"]]
\* Worker ids a task may name; "ghost" is registered nowhere.
TaskAgents == {"seo_agent_001", "ghost"}

\* A Python dict is falsy exactly when it is empty, a string when it is "".
DictTruthy(d) == DOMAIN d # {}
StrTruthy(s) == s # ""

\* AgentManager.get_agent_url
get_agent_url(reg, agent_id) ==
  IF agent_id \notin DOMAIN reg THEN None
  ELSE IF ~DictTruthy(reg[agent_id]) THEN None
  ELSE IF "url" \in DOMAIN reg[agent_id] /\ StrTruthy(reg[agent_id]["url"])
       THEN reg[agent_id]["url"]
  ELSE GENERIC_AGENT_URL

\* ------------------------------------------------------------ the store
\* json.dumps / json.loads of the tasks and results columns: the column
\* holds the encoded text, the code decodes it before use.
json_dumps(v) == <<"json", v>>
json_loads(s) == s[2]

NoRow == [absent |-> TRUE]
Task(a) == [agent_id |-> a]
RECURSIVE SeqsUpTo(_, _)
SeqsUpTo(S, n) ==
  IF n = 0 THEN {<<>>}
  ELSE LET prev == SeqsUpTo(S, n - 1) IN
       prev \cup {Append(s, x) : s \in {t \in prev : Len(t) = n - 1}, x \in S}
TaskLists == SeqsUpTo({Task(a) : a \in TaskAgents}, MaxTasks)

\* What one call of the worker's /execute endpoint can do.
\*   ok_success, ok_error: HTTP 2xx with a JSON body whose status is
\*     success / error;
\*   transport: httpx.RequestError (connection failure, timeout);
\*   http_error: a non-2xx response, raise_for_status raises HTTPStatusError;
\*   malformed: a 2xx response whose body is not JSON, response.json() raises.
Outcomes == {"ok_success", "ok_error", "transport", "http_error", "malformed"}

VARIABLES
  agents,       \* AgentManager.agents of the consumer process
  store,        \* the workflows table: id -> row or NoRow
  queue,        \* Celery queue: id -> number of undelivered messages
  deliveries,   \* id -> number of times a consumer received the message
  redelivered,  \* number of broker redeliveries so far
  nextId,       \* next fresh workflow id (uuid4)
  cstate,       \* id -> position of the create call that generated it
  cargs,        \* id -> the arguments of that create call
  enq,          \* id -> number of execute_workflow_task.delay calls
  emitted,      \* id -> log_event calls for the workflow, in call order
  pc,           \* consumer -> position in execute_workflow
  wid,          \* consumer -> workflow id being executed
  wf,           \* consumer -> the row read at the start (workflow)
  results,      \* consumer -> local list results
  final_status, \* consumer -> local final_status
  idx,          \* consumer -> 1-based index of the current task
  invoked,      \* consumer -> indices of the tasks whose worker was called
  fail_at,      \* consumer -> index of the task the loop broke at, or 0
  sink_failed   \* some log_event call failed to deliver its event

wfvars == <<agents, store, queue, deliveries, redelivered, nextId, cstate,
            cargs, enq, emitted, pc, wid, wf, results, final_status,
            idx, invoked, fail_at, sink_failed>>

VARIABLES
  config,        \* Team.config: strategy, members, shared_context
  tstate,        \* position of the Team constructor: new, ready, load_raised
  members,       \* Team.members: ids of the agents _load_members loaded
  context,       \* Team.context: the TaskContext the last execute created
  tpc,           \* run -> position of Team.execute: idle, running, returned
  todo,          \* run -> the member list the strategy iterates over
  tpos,          \* run -> 1-based index of the next member in todo
  agent_results, \* run -> local dict agent_results, in insertion order
  outputs,       \* run -> local dict outputs
  current_input, \* run -> local current_input of _execute_pipeline
  tresult,       \* run -> the TeamResult execute returned
  invoked_with,  \* run -> the shared data the agent in flight was invoked with
  calls          \* history of the agent.execute calls, in call order

tvars == <<config, tstate, members, context, tpc, todo, tpos, agent_results,
           outputs, current_input, tresult, invoked_with, calls>>

VARIABLES
  registered     \* history of the register_agent calls, in call order

rvars == <<registered>>

VARIABLES
  now,              \* the clock time.time() reads, in seconds
  advances,         \* number of clock advances between calls so far
  _minute_requests, \* client -> RateLimiter._minute_requests[client]
  _hour_requests,   \* client -> RateLimiter._hour_requests[client]
  ncalls,           \* number of calls of the limiter so far
  info,             \* what the last call decided: allowed, or the window
                    \* whose limit rejected the request
  admitted          \* client -> the times record_request recorded, in order

lvars == <<now, advances, _minute_requests, _hour_requests, ncalls, info,
           admitted>>
vars == <<wfvars, tvars, rvars, lvars>>

\* Client ids _get_client_id yields.
Clients == {"c1", "c2"}
\* The windows check_rate_limit is written with, in seconds.
MinuteWindow == 60
HourWindow == 3600
BurstWindow == 5
\* How far the clock moves between two calls: less than the burst window,
\* less than the minute window, less than the hour window; the steps add up
\* to the lengths of the windows.
Jumps == {4, 56, 3540}
\* How far the clock may move between two reads of time.time() inside one
\* call of the limiter.
Drifts == {0, 1}

\* RateLimiter.__init__: both defaultdict(list) are empty; reading a client
\* that has no entry yields the empty list.
LimiterInit ==
  /\ now = 0
  /\ advances = 0
  /\ _minute_requests = [c \in Clients |-> <<>>]
  /\ _hour_requests = [c \in Clients |-> <<>>]
  /\ ncalls = 0
  /\ info = "none"
  /\ admitted = [c \in Clients |-> <<>>]

\* The state of the orchestration service around a registry reg, after the
\* consumer process has registered its agents.
WfInitWith(reg) ==
  /\ agents = reg
  /\ registered = <<>>
  /\ store = [w \in WorkflowIds |-> NoRow]
  /\ queue = [w \in WorkflowIds |-> 0]
  /\ deliveries = [w \in WorkflowIds |-> 0]
  /\ redelivered = 0
  /\ nextId = 1
  /\ cstate = [w \in WorkflowIds |-> "unused"]
  /\ cargs = [w \in WorkflowIds |-> NoRow]
  /\ enq = [w \in WorkflowIds |-> 0]
  /\ emitted = [w \in WorkflowIds |-> <<>>]
  /\ pc = [p \in Consumers |-> "idle"]
  /\ wid = [p \in Consumers |-> 0]
  /\ wf = [p \in Consumers |-> NoRow]
  /\ results = [p \in Consumers |-> <<>>]
  /\ final_status = [p \in Consumers |-> "completed"]
  /\ idx = [p \in Consumers |-> 0]
  /\ invoked = [p \in Consumers |-> <<>>]
  /\ fail_at = [p \in Consumers |-> 0]
  /\ sink_failed = FALSE
  /\ LimiterInit

WfInit == WfInitWith(ConsumerRegistry)

\* ------------------------------------------------------------ event sink
\* AnalyticsManager.log_event: the event is written, or the write fails and
\* the exception is caught and logged; either way the call returns.
\* emitted records the calls in call order.  The analytics_events table is
\* read by no operation of the workflow core and is not part of the state.
Event(type, status) == [type |-> type, status |-> status]
log_event(em, w, type, status, ok) ==
  IF ok THEN [em EXCEPT ![w] = Append(@, Event(type, status))]
  ELSE [em EXCEPT ![w] = Append(@, Event(type, status))]

\* Variant: a delivery failure is raised to the caller of log_event.
log_event_outcomeRaises(ok) == IF ok THEN "returned" ELSE "raised"

\* What the caller of log_event sees: the body of log_event is one try whose
\* except Exception logs the error, so the call returns whether the event
\* was delivered or not.
log_event_outcome(ok) == "returned"

\* ---------------------------------------------------------- rate limiter
\* RateLimiter._clean_old_requests, with the value its time.time() reads.
_clean_old_requests(requests_list, window_seconds, current_time) ==
  LET cutoff == current_time - window_seconds IN
  SelectSeq(requests_list, LAMBDA req_time : req_time > cutoff)

\* Variant: the minute limit is compared with > instead of >=.
check_rate_limitMinuteOffByOne(minute, hour, current_time) ==
  LET minute_count == Len(minute)
      hour_count == Len(hour)
      recent_requests ==
        SelectSeq(minute, LAMBDA req_time : current_time - req_time < BurstWindow)
  IN CASE minute_count > requests_per_minute -> "minute"
       [] hour_count >= requests_per_hour -> "hour"
       [] Len(recent_requests) >= burst_limit -> "burst"
       [] OTHER -> "allowed"

\* RateLimiter.check_rate_limit after the two lists have been cleaned: the
\* window whose limit rejects the request, or "allowed".
check_rate_limit(minute, hour, current_time) ==
  LET minute_count == Len(minute)
      hour_count == Len(hour)
      recent_requests ==
        SelectSeq(minute, LAMBDA req_time : current_time - req_time < BurstWindow)
  IN CASE minute_count >= requests_per_minute -> "minute"
       [] hour_count >= requests_per_hour -> "hour"
       [] Len(recent_requests) >= burst_limit -> "burst"
       [] OTHER -> "allowed"

\* RateLimiter.record_request on one list, with the value its time.time()
\* reads.
record_request(requests_list, current_time) == Append(requests_list, current_time)

\* RateLimiter.__call__ for a request of client_id.  The method has no await:
\* it runs from its first line to its return with no other call in between.
\* time.time() is read first by check_rate_limit (current_time), then by
\* _clean_old_requests and by record_request, and the clock may have moved by
\* d since the first read.
\* Client ids are interchangeable: "c1" is the client of the first request.
RateLimiterCall(client_id, d) ==
  /\ ncalls < MaxCalls
  /\ ncalls = 0 => client_id = "c1"
  /\ ncalls' = ncalls + 1
  /\ LET current_time == now
         minute == _clean_old_requests(_minute_requests[client_id],
                                       MinuteWindow, current_time + d)
         hour == _clean_old_requests(_hour_requests[client_id],
                                     HourWindow, current_time + d)
         is_allowed == check_rate_limit(minute, hour, current_time) = "allowed"
         recorded == current_time + d
     IN
     /\ info' = check_rate_limit(minute, hour, current_time)
     /\ IF is_allowed
        THEN /\ _minute_requests' =
                  [_minute_requests EXCEPT ![client_id] = record_request(minute, recorded)]
             /\ _hour_requests' =
                  [_hour_requests EXCEPT ![client_id] = record_request(hour, recorded)]
             /\ admitted' = [admitted EXCEPT ![client_id] = Append(@, recorded)]
             /\ now' = recorded
        ELSE /\ _minute_requests' = [_minute_requests EXCEPT ![client_id] = minute]
             /\ _hour_requests' = [_hour_requests EXCEPT ![client_id] = hour]
             /\ now' = current_time + d
             /\ UNCHANGED admitted
  /\ UNCHANGED advances
  /\ UNCHANGED <<wfvars, tvars, rvars>>

\* Time passes between two requests.
Advance(d) ==
  /\ advances < MaxAdvances
  /\ advances' = advances + 1
  /\ now' = now + d
  /\ UNCHANGED <<_minute_requests, _hour_requests, ncalls, info, admitted>>
  /\ UNCHANGED <<wfvars, tvars, rvars>>

\* ------------------------------------------------------- database access
\* WorkflowManager._get_workflow_from_db
_get_workflow_from_db(st, workflow_id, user_id) ==
  IF workflow_id \notin DOMAIN st THEN NoRow
  ELSE IF st[workflow_id] = NoRow THEN NoRow
  ELSE IF user_id # NoUser /\ st[workflow_id].user_id # user_id THEN NoRow
  ELSE st[workflow_id]

\* WorkflowManager._update_workflow_status
_update_workflow_status(st, workflow_id, status) ==
  IF st[workflow_id] = NoRow THEN st
  ELSE [st EXCEPT ![workflow_id].status = status]

\* WorkflowManager._update_workflow_results
_update_workflow_results(st, workflow_id, res) ==
  IF st[workflow_id] = NoRow THEN st
  ELSE [st EXCEPT ![workflow_id].results = json_dumps(res)]

\* WorkflowManager.get_workflow_status
NotFound == [not_found |-> TRUE]
get_workflow_status(st, workflow_id, user_id) ==
  LET workflow == _get_workflow_from_db(st, workflow_id, user_id) IN
  IF workflow = NoRow THEN NotFound
  ELSE [id |-> workflow.id, name |-> workflow.name, status |-> workflow.status,
        results |-> json_loads(workflow.results)]

\* WorkflowManager.get_workflows_for_user
get_workflows_for_user(st, user_id) ==
  {[id |-> st[w].id, name |-> st[w].name, status |-> st[w].status] :
     w \in {x \in DOMAIN st : st[x] # NoRow /\ st[x].user_id = user_id}}

\* ---------------------------------------------------------------- create
\* User ids are interchangeable (every one is a non-zero integer), so the
\* callers are numbered in the order of their first create call.
Callers == {cargs[w].user_id : w \in {x \in WorkflowIds : cstate[x] # "unused"}}
NextCallers == Callers \cup {u \in Users : \A v \in Users \ Callers : u <= v}

\* Variant: a failed commit is swallowed and the method carries on.
CreateCommitSwallowed(name, tasks, user_id, commit_ok) ==
  /\ nextId \in WorkflowIds
  /\ user_id \in NextCallers
  /\ LET workflow_id == nextId IN
     /\ nextId' = nextId + 1
     /\ cargs' = [cargs EXCEPT ![workflow_id] =
                    [name |-> name, tasks |-> tasks, user_id |-> user_id]]
     /\ cstate' = [cstate EXCEPT ![workflow_id] = "committed"]
     /\ store' = IF commit_ok
                 THEN [store EXCEPT ![workflow_id] =
                         [id |-> workflow_id, name |-> name,
                          tasks |-> json_dumps(tasks), status |-> "pending",
                          results |-> json_dumps(<<>>), user_id |-> user_id]]
                 ELSE store
  /\ UNCHANGED <<agents, queue, deliveries, redelivered, enq, emitted, pc,
                 wid, wf, results, final_status, idx, invoked, fail_at>>

\* WorkflowManager.create_and_dispatch_workflow, up to the commit.  uuid4
\* yields an id no row has.  When the commit raises, the session is closed
\* and the exception leaves the method: nothing after it runs.
CreateCommit(name, tasks, user_id, commit_ok) ==
  /\ nextId \in WorkflowIds
  /\ user_id \in NextCallers
  /\ LET workflow_id == nextId IN
     /\ nextId' = nextId + 1
     /\ cargs' = [cargs EXCEPT ![workflow_id] =
                    [name |-> name, tasks |-> tasks, user_id |-> user_id]]
     /\ IF commit_ok
        THEN /\ store' = [store EXCEPT ![workflow_id] =
                            [id |-> workflow_id, name |-> name,
                             tasks |-> json_dumps(tasks), status |-> "pending",
                             results |-> json_dumps(<<>>), user_id |-> user_id]]
             /\ cstate' = [cstate EXCEPT ![workflow_id] = "committed"]
        ELSE /\ store' = store
             /\ cstate' = [cstate EXCEPT ![workflow_id] = "commit_failed"]
  /\ UNCHANGED <<agents, queue, deliveries, redelivered, enq, emitted, pc,
                 wid, wf, results, final_status, idx, invoked, fail_at>>

\* ... await analytics_manager.log_event("workflow_created", ...)
CreateLogEvent(w, ok) ==
  /\ cstate[w] = "committed"
  /\ emitted' = log_event(emitted, w, "workflow_created", None, ok)
  /\ cstate' = [cstate EXCEPT ![w] =
                  IF log_event_outcome(ok) = "raised" THEN "log_raised"
                  ELSE "logged"]
  /\ UNCHANGED <<agents, store, queue, deliveries, redelivered, nextId, cargs,
                 enq, pc, wid, wf, results, final_status, idx, invoked, fail_at>>

\* ... execute_workflow_task.delay(workflow_id); return workflow_id
CreateEnqueue(w) ==
  /\ cstate[w] = "logged"
  /\ queue' = [queue EXCEPT ![w] = @ + 1]
  /\ enq' = [enq EXCEPT ![w] = @ + 1]
  /\ cstate' = [cstate EXCEPT ![w] = "returned"]
  /\ UNCHANGED <<agents, store, deliveries, redelivered, nextId, cargs,
                 emitted, pc, wid, wf, results, final_status, idx, invoked,
                 fail_at>>

\* ------------------------------------------------------------ dispatcher
\* The queue delivers at least once: the broker may hand a message that was
\* already delivered to a consumer again.
Redeliver(w) ==
  /\ UNCHANGED sink_failed
  /\ deliveries[w] >= 1
  /\ redelivered < MaxRedeliver
  /\ redelivered' = redelivered + 1
  /\ queue' = [queue EXCEPT ![w] = @ + 1]
  /\ UNCHANGED <<agents, store, deliveries, nextId, cstate, cargs, enq,
                 emitted, pc, wid, wf, results, final_status, idx, invoked,
                 fail_at>>
  /\ UNCHANGED <<tvars, rvars, lvars>>

\* --------------------------------------------------------------- execute
\* Fields of the rows a consumer keeps in local variables.
Tasks(p) == json_loads(wf[p].tasks)
Result(i, status) == [task |-> i, status |-> status]

\* The Celery task starts on a consumer: execute_workflow reads the row.
\* When no row has the id, it logs an error and returns.
\* A consumer is free before its first task and after a task has ended:
\* "done" when execute_workflow returned, "raised" when an exception left it
\* and failed the Celery task; wid still names the workflow of that task,
\* the locals of execute_workflow are gone.  Consumers are interchangeable:
\* the message goes to the first free one.
Free(p) == pc[p] \in {"idle", "done", "raised"}
ExecStart(p, w) ==
  /\ Free(p)
  /\ \A q \in Consumers : q < p => ~Free(q)
  /\ queue[w] > 0
  /\ queue' = [queue EXCEPT ![w] = @ - 1]
  /\ deliveries' = [deliveries EXCEPT ![w] = @ + 1]
  /\ wid' = [wid EXCEPT ![p] = w]
  /\ LET workflow == _get_workflow_from_db(store, w, NoUser) IN
     /\ wf' = [wf EXCEPT ![p] = workflow]
     /\ pc' = [pc EXCEPT ![p] = IF workflow = NoRow THEN "done" ELSE "set_running"]
  /\ UNCHANGED <<agents, store, redelivered, nextId, cstate, cargs, enq,
                 emitted, results, final_status, idx, invoked, fail_at>>

\* Variant: the execution starts without marking the workflow running.
ExecSetRunningSkipped(p) ==
  /\ pc[p] = "set_running"
  /\ pc' = [pc EXCEPT ![p] = "log_started"]
  /\ UNCHANGED <<agents, store, queue, deliveries, redelivered, nextId, cstate,
                 cargs, enq, emitted, wid, wf, results, final_status, idx,
                 invoked, fail_at>>

\* await self._update_workflow_status(workflow_id, "running")
ExecSetRunning(p) ==
  /\ pc[p] = "set_running"
  /\ store' = _update_workflow_status(store, wid[p], "running")
  /\ pc' = [pc EXCEPT ![p] = "log_started"]
  /\ UNCHANGED <<agents, queue, deliveries, redelivered, nextId, cstate, cargs,
                 enq, emitted, wid, wf, results, final_status, idx, invoked,
                 fail_at>>

\* await log_event("workflow_started"); tasks = json.loads(workflow.tasks);
\* the loop begins (results = [] and final_status = "completed" are the
\* values the locals have had since the execution started).
ExecLogStarted(p, ok) ==
  /\ pc[p] = "log_started"
  /\ emitted' = log_event(emitted, wid[p], "workflow_started", None, ok)
  /\ idx' = [idx EXCEPT ![p] = 1]
  /\ pc' = [pc EXCEPT ![p] =
              IF log_event_outcome(ok) = "raised" THEN "raised"
              ELSE IF Len(Tasks(p)) = 0 THEN "write_results" ELSE "task"]
  /\ UNCHANGED <<agents, store, queue, deliveries, redelivered, nextId, cstate,
                 cargs, enq, wid, wf, results, final_status, invoked, fail_at>>

\* Variant: an unresolved agent marks the workflow failed but the loop goes
\* on with the next task (continue instead of break).
ExecTaskUnresolvedContinue(p) ==
  /\ pc[p] = "task"
  /\ get_agent_url(agents, Tasks(p)[idx[p]].agent_id) = None
  /\ final_status' = [final_status EXCEPT ![p] = "failed"]
  /\ fail_at' = [fail_at EXCEPT ![p] = idx[p]]
  /\ idx' = [idx EXCEPT ![p] = @ + 1]
  /\ pc' = [pc EXCEPT ![p] =
              IF idx[p] + 1 > Len(Tasks(p)) THEN "write_results" ELSE "task"]
  /\ UNCHANGED <<agents, store, queue, deliveries, redelivered, nextId, cstate,
                 cargs, enq, emitted, wid, wf, results, invoked>>

\* One iteration whose agent_id the registry does not resolve:
\* final_status = "failed"; break.
ExecTaskUnresolved(p) ==
  /\ pc[p] = "task"
  /\ get_agent_url(agents, Tasks(p)[idx[p]].agent_id) = None
  /\ final_status' = [final_status EXCEPT ![p] = "failed"]
  /\ fail_at' = [fail_at EXCEPT ![p] = idx[p]]
  /\ pc' = [pc EXCEPT ![p] = "write_results"]
  /\ UNCHANGED <<agents, store, queue, deliveries, redelivered, nextId, cstate,
                 cargs, enq, emitted, wid, wf, results, idx, invoked>>

\* Variant: every result is written to the row as soon as it is appended.
StoreAfterAppendWritten(st, workflow_id, res) ==
  _update_workflow_results(st, workflow_id, res)

\* results.append(result) inside the loop: the list is a local of
\* execute_workflow, the row is left as it is.
StoreAfterAppendLoop(st, workflow_id, res) == st

\* One iteration whose agent resolves: client.post, raise_for_status,
\* response.json(), results.append(result), log_event.  httpx.RequestError
\* is the only exception the loop catches; HTTPStatusError (raise_for_status)
\* and the decoding error of response.json() leave execute_workflow.  The
\* remote call touches no state of the orchestrator, so the call and the
\* log_event that follows it are one step.
ExecTaskInvoke(p, outcome, ok) ==
  /\ pc[p] = "task"
  /\ get_agent_url(agents, Tasks(p)[idx[p]].agent_id) # None
  /\ CASE outcome \in {"ok_success", "ok_error"} ->
            /\ results' = [results EXCEPT ![p] =
                  Append(@, Result(idx[p], IF outcome = "ok_success"
                                           THEN "success" ELSE "error"))]
            /\ emitted' = log_event(emitted, wid[p], "agent_task_completed",
                                    "success", ok)
            /\ idx' = [idx EXCEPT ![p] = @ + 1]
                      /\ pc' = [pc EXCEPT ![p] =
                  IF log_event_outcome(ok) = "raised" THEN "raised"
                  ELSE IF idx[p] + 1 > Len(Tasks(p)) THEN "write_results"
                  ELSE "task"]
            /\ UNCHANGED <<final_status, fail_at>>
       [] outcome = "transport" ->
            /\ final_status' = [final_status EXCEPT ![p] = "failed"]
            /\ fail_at' = [fail_at EXCEPT ![p] = idx[p]]
            /\ emitted' = log_event(emitted, wid[p], "agent_task_failed",
                                    "failed", ok)
                      /\ pc' = [pc EXCEPT ![p] =
                  IF log_event_outcome(ok) = "raised" THEN "raised"
                  ELSE "write_results"]
            /\ UNCHANGED <<results, idx>>
       [] outcome \in {"http_error", "malformed"} ->
            /\ pc' = [pc EXCEPT ![p] = "raised"]
            /\ results' = [results EXCEPT ![p] = <<>>]
            /\ idx' = [idx EXCEPT ![p] = 0]
            /\ UNCHANGED <<final_status, fail_at, emitted>>
  /\ wf' = [wf EXCEPT ![p] = IF outcome \in {"http_error", "malformed"}
                             THEN NoRow ELSE @]
  /\ invoked' = [invoked EXCEPT ![p] =
                   IF outcome \in {"http_error", "malformed"}
                   THEN <<>> ELSE Append(@, idx[p])]
  /\ store' = IF outcome \in {"ok_success", "ok_error"}
              THEN StoreAfterAppendLoop(store, wid[p], results'[p]) ELSE store
  /\ UNCHANGED <<agents, queue, deliveries, redelivered, nextId, cstate,
                 cargs, enq, wid>>

\* Variant: the first of the two final writes persists the status and the
\* results are never written.
ExecWriteResultsStatusFirst(p) ==
  /\ pc[p] = "write_results"
  /\ store' = _update_workflow_status(store, wid[p], final_status[p])
  /\ pc' = [pc EXCEPT ![p] = "write_status"]
  /\ UNCHANGED <<agents, queue, deliveries, redelivered, nextId, cstate, cargs,
                 enq, emitted, wid, wf, results, final_status, idx, invoked,
                 fail_at>>

\* await self._update_workflow_results(workflow_id, results)
ExecWriteResults(p) ==
  /\ pc[p] = "write_results"
  /\ store' = _update_workflow_results(store, wid[p], results[p])
  /\ pc' = [pc EXCEPT ![p] = "write_status"]
  /\ UNCHANGED <<agents, queue, deliveries, redelivered, nextId, cstate, cargs,
                 enq, emitted, wid, wf, results, final_status, idx, invoked,
                 fail_at>>

\* Variant: the final status is not written before workflow_finished is
\* logged.
ExecWriteStatusSkipped(p) ==
  /\ pc[p] = "write_status"
  /\ pc' = [pc EXCEPT ![p] = "log_finished"]
  /\ UNCHANGED <<agents, store, queue, deliveries, redelivered, nextId, cstate,
                 cargs, enq, emitted, wid, wf, results, final_status, idx,
                 invoked, fail_at>>

\* await self._update_workflow_status(workflow_id, final_status)
ExecWriteStatus(p) ==
  /\ pc[p] = "write_status"
  /\ store' = _update_workflow_status(store, wid[p], final_status[p])
  /\ pc' = [pc EXCEPT ![p] = "log_finished"]
  /\ UNCHANGED <<agents, queue, deliveries, redelivered, nextId, cstate, cargs,
                 enq, emitted, wid, wf, results, final_status, idx, invoked,
                 fail_at>>

\* await log_event("workflow_finished", ..., status=final_status); return.
ExecLogFinished(p, ok) ==
  /\ pc[p] = "log_finished"
  /\ emitted' = log_event(emitted, wid[p], "workflow_finished", final_status[p], ok)
  /\ pc' = [pc EXCEPT ![p] =
              IF log_event_outcome(ok) = "raised" THEN "raised" ELSE "done"]
  /\ wf' = [wf EXCEPT ![p] = NoRow]
  /\ results' = [results EXCEPT ![p] = <<>>]
  /\ final_status' = [final_status EXCEPT ![p] = "completed"]
  /\ idx' = [idx EXCEPT ![p] = 0]
  /\ invoked' = [invoked EXCEPT ![p] = <<>>]
  /\ fail_at' = [fail_at EXCEPT ![p] = 0]
  /\ UNCHANGED <<agents, store, queue, deliveries, redelivered, nextId, cstate,
                 cargs, enq, wid>>

\* ------------------------------------------------------------------ team
\* TeamStrategy
TeamStrategy ==
  {"sequential", "parallel", "consensus", "leader_follower", "pipeline"}
\* AgentRegistry.agents of the team's registry; "G" is registered nowhere.
RegisteredAgents == {"A", "B", "C"}
MemberIds == RegisteredAgents \cup {"G"}
Priorities == {1, 2}
\* Two runs of Team.execute on the same Team object.
Runs == {1, 2}

\* A Python dict with string keys is a function; {} is the empty function.
EmptyDict == <<>>
\* d[k] = v
DictSet(d, k, v) == (k :> v) @@ d

\* TeamMember (role is read by no strategy)
TeamMember(agent_id, priority, required) ==
  [agent_id |-> agent_id, priority |-> priority, required |-> required]
\* Member lists of at most MaxMembers members with distinct agent ids.
MemberLists ==
  {ms \in SeqsUpTo({TeamMember(a, p, q) :
                      a \in MemberIds, p \in Priorities, q \in BOOLEAN},
                   MaxMembers) :
     \A i, j \in 1..Len(ms) : i # j => ms[i].agent_id # ms[j].agent_id}
\* TeamConfiguration
SeedContext == [seed |-> 0]
TeamConfiguration(strategy, ms) ==
  [strategy |-> strategy, members |-> ms, shared_context |-> SeedContext]
\* config.strategy is not type-checked: it may hold a value that is none of
\* the five members of TeamStrategy.
UnknownStrategy == "unknown"
TeamConfigurations ==
  {TeamConfiguration(s, ms) :
     s \in TeamStrategy \cup {UnknownStrategy}, ms \in MemberLists}

\* The task given to Team.execute.
TeamTask == [x |-> 1]

\* What one call of agent.execute can do: return an AgentResult with status
\* success or error, or raise.
AgentOutcomes == {"success", "error", "raise"}
AgentKey(a) == CASE a = "A" -> "y" [] a = "B" -> "z" [] OTHER -> "y"
AgentValue(a) == CASE a = "A" -> 2 [] a = "B" -> 3 [] OTHER -> 4
\* The outputs of a successful call: the agent's own key, and under "n" the
\* number of agents the input has passed through.
AgentOutput(a, input) ==
  DictSet([n |-> IF "n" \in DOMAIN input THEN input["n"] + 1 ELSE 1],
          AgentKey(a), AgentValue(a))
\* AgentResult; Raised stands for the exception agent.execute raised.
AgentResult(status, outs, error) ==
  [status |-> status, outputs |-> outs, error |-> error]
Raised == AgentResult("raised", EmptyDict, "boom")
AgentExecute(a, input, outcome) ==
  CASE outcome = "success" -> AgentResult("success", AgentOutput(a, input), None)
    [] outcome = "error" -> AgentResult("error", EmptyDict, "agent failed")
    [] outcome = "raise" -> Raised

\* agent_results[agent_id] = result, on a dict kept in insertion order.
ResultsSet(ar, agent_id, result) ==
  IF \E i \in 1..Len(ar) : ar[i][1] = agent_id
  THEN [i \in 1..Len(ar) |->
          IF ar[i][1] = agent_id THEN <<agent_id, result>> ELSE ar[i]]
  ELSE Append(ar, <<agent_id, result>>)

\* TeamResult as a strategy builds it; execute sets agents_executed.
TeamResult(status, outs, ar, metadata, error) ==
  [status |-> status, outputs |-> outs, agent_results |-> ar,
   metadata |-> metadata, error |-> error, agents_executed |-> 0]
NoResult == [status |-> "none"]
\* The TeamResult execute builds when an exception leaves the strategy.
ErrorResult(e) == TeamResult("error", EmptyDict, <<>>, EmptyDict, e)

\* Variant: the members are taken in configuration order, unsorted.
sortedNot(ms) == ms

\* sorted(members, key=lambda m: m.priority, reverse=True): stable.
RECURSIVE sorted(_)
sorted(ms) ==
  IF ms = <<>> THEN <<>>
  ELSE LET s == sorted(SubSeq(ms, 1, Len(ms) - 1))
           m == ms[Len(ms)]
           k == Cardinality({i \in 1..Len(s) : s[i].priority >= m.priority})
       IN SubSeq(s, 1, k) \o <<m>> \o SubSeq(s, k + 1, Len(s))

\* max(members, key=lambda m: m.priority): the first member of the highest
\* priority.
leader(ms) ==
  ms[CHOOSE i \in 1..Len(ms) :
       /\ \A j \in 1..Len(ms) : ms[j].priority <= ms[i].priority
       /\ \A j \in 1..(i - 1) : ms[j].priority < ms[i].priority]
followers(ms) ==
  SelectSeq(ms, LAMBDA m : m.agent_id # leader(ms).agent_id)

\* Variant: a later value for a key replaces the earlier one, a last-wins
\* decision instead of a grouping.
RECURSIVE _aggregate_outputsLastWins(_)
_aggregate_outputsLastWins(ar) ==
  IF ar = <<>> THEN EmptyDict
  ELSE LET aggregated == _aggregate_outputsLastWins(SubSeq(ar, 1, Len(ar) - 1))
           result == ar[Len(ar)][2]
       IN IF result.status # "success" THEN aggregated
          ELSE [k \in DOMAIN aggregated \cup DOMAIN result.outputs |->
                  IF k \in DOMAIN result.outputs
                  THEN <<result.outputs[k]>> ELSE aggregated[k]]

\* Team._aggregate_outputs
RECURSIVE _aggregate_outputs(_)
_aggregate_outputs(ar) ==
  IF ar = <<>> THEN EmptyDict
  ELSE LET aggregated == _aggregate_outputs(SubSeq(ar, 1, Len(ar) - 1))
           result == ar[Len(ar)][2]
       IN IF result.status # "success" THEN aggregated
          ELSE [k \in DOMAIN aggregated \cup DOMAIN result.outputs |->
                  (IF k \in DOMAIN aggregated THEN aggregated[k] ELSE <<>>)
                  \o (IF k \in DOMAIN result.outputs
                      THEN <<result.outputs[k]>> ELSE <<>>)]

NoContext == [task_id |-> 0, shared_data |-> EmptyDict]

\* The team part of the initial state: no Team object yet.
TeamInit(cfg) ==
  /\ config = cfg
  /\ tstate = "new"
  /\ members = {}
  /\ context = NoContext
  /\ tpc = [r \in Runs |-> "idle"]
  /\ todo = [r \in Runs |-> <<>>]
  /\ tpos = [r \in Runs |-> 0]
  /\ agent_results = [r \in Runs |-> <<>>]
  /\ outputs = [r \in Runs |-> EmptyDict]
  /\ current_input = [r \in Runs |-> EmptyDict]
  /\ tresult = [r \in Runs |-> NoResult]
  /\ invoked_with = [r \in Runs |-> EmptyDict]
  /\ calls = <<>>

\* The orchestration service builds no team.
Init == WfInit /\ TeamInit(TeamConfiguration("sequential", <<>>))
\* A team of any configuration, beside an idle orchestration service.
TInit == WfInit /\ \E cfg \in TeamConfigurations : TeamInit(cfg)

\* Team.__init__ with _load_members: every member the registry knows is
\* loaded; a required member it does not know makes the constructor raise,
\* an optional one is skipped.
TeamConstruct ==
  /\ tstate = "new"
  /\ LET unknown == {i \in 1..Len(config.members) :
                       config.members[i].agent_id \notin RegisteredAgents}
         stop == IF \E i \in unknown : config.members[i].required
                 THEN CHOOSE i \in unknown :
                        /\ config.members[i].required
                        /\ \A j \in unknown :
                             config.members[j].required => i <= j
                 ELSE Len(config.members) + 1
     IN
     /\ members' = {config.members[i].agent_id :
                      i \in {j \in 1..Len(config.members) : j < stop} \ unknown}
     /\ tstate' = IF stop <= Len(config.members) THEN "load_raised" ELSE "ready"
  /\ UNCHANGED <<config, context, tpc, todo, tpos, agent_results, outputs,
                 current_input, tresult, invoked_with, calls>>
  /\ UNCHANGED <<wfvars, rvars, lvars>>

\* execute returns res: agents_executed = len(res.agent_results); the locals
\* of the strategy are gone.
Return(r, res) ==
  /\ tresult' = [tresult EXCEPT ![r] =
                   [res EXCEPT !.agents_executed = Len(res.agent_results)]]
  /\ tpc' = [tpc EXCEPT ![r] = "returned"]
  /\ todo' = [todo EXCEPT ![r] = <<>>]
  /\ tpos' = [tpos EXCEPT ![r] = 0]
  /\ agent_results' = [agent_results EXCEPT ![r] = <<>>]
  /\ outputs' = [outputs EXCEPT ![r] = EmptyDict]
  /\ current_input' = [current_input EXCEPT ![r] = EmptyDict]
  /\ invoked_with' = [invoked_with EXCEPT ![r] = EmptyDict]

\* The loop of the strategy goes on: without suspending, it calls the agent
\* of its next member with self.context, whose shared data is shared_data,
\* and awaits it.
Continue(r, ar, outs, cur, shared_data) ==
  /\ tpos' = [tpos EXCEPT ![r] = @ + 1]
  /\ invoked_with' = [invoked_with EXCEPT ![r] = shared_data]
  /\ agent_results' = [agent_results EXCEPT ![r] = ar]
  /\ outputs' = [outputs EXCEPT ![r] = outs]
  /\ current_input' = [current_input EXCEPT ![r] = cur]
  /\ UNCHANGED <<tresult, tpc, todo>>

\* _execute_consensus: whatever _execute_parallel returned gets
\* outputs["consensus"] = _aggregate_outputs(agent_results).
ParallelReturn(r, res) ==
  Return(r, IF config.strategy = "consensus"
            THEN [res EXCEPT !.outputs =
                    DictSet(@, "consensus", _aggregate_outputs(res.agent_results))]
            ELSE res)

\* The result a strategy returns when its loop has run over every member.
EndOfLoop(r, ar, outs, cur, shared_data) ==
  CASE config.strategy = "sequential" ->
         Return(r, TeamResult("success", outs, ar,
                              [shared_context |-> shared_data], None))
    [] config.strategy \in {"parallel", "consensus"} ->
         ParallelReturn(r, TeamResult("success", outs, ar, EmptyDict, None))
    [] config.strategy = "leader_follower" ->
         Return(r, TeamResult("success", outs, ar, EmptyDict, None))
    [] config.strategy = "pipeline" ->
         Return(r, TeamResult("success", cur, ar, EmptyDict, None))

\* Team.execute up to the first member: a new TaskContext seeded with a copy
\* of config.shared_context replaces Team.context, and the strategy sets up
\* its loop.  max() of an empty member list raises in _execute_leader_follower
\* and execute turns the exception into an error result; the loop of every
\* other strategy ends at once on an empty list.  A strategy that is none of
\* the five raises ValueError, which execute turns into an error result.
TeamExecute(r) ==
  /\ tstate = "ready"
  /\ tpc[r] = "idle"
  /\ \A q \in Runs : q < r => tpc[q] # "idle"
  /\ context' = [task_id |-> r, shared_data |-> config.shared_context]
  /\ LET list == CASE config.strategy \in {"sequential", "pipeline"} ->
                        sorted(config.members)
                   [] config.strategy \in {"parallel", "consensus"} ->
                        config.members
                   [] config.strategy = "leader_follower" ->
                        IF config.members = <<>> THEN <<>>
                        ELSE <<leader(config.members)>> \o followers(config.members)
                   [] OTHER -> <<>>
     IN
     IF config.strategy \notin TeamStrategy
     THEN Return(r, ErrorResult("Unknown strategy"))
     ELSE IF list = <<>>
     THEN IF config.strategy = "leader_follower"
          THEN Return(r, ErrorResult("max() arg is an empty sequence"))
          ELSE EndOfLoop(r, <<>>, EmptyDict, TeamTask, config.shared_context)
     ELSE /\ tpc' = [tpc EXCEPT ![r] = "running"]
          /\ todo' = [todo EXCEPT ![r] = list]
          /\ tpos' = [tpos EXCEPT ![r] = 1]
          /\ agent_results' = [agent_results EXCEPT ![r] = <<>>]
          /\ outputs' = [outputs EXCEPT ![r] = EmptyDict]
          /\ current_input' = [current_input EXCEPT ![r] = TeamTask]
          /\ invoked_with' = [invoked_with EXCEPT ![r] = config.shared_context]
          /\ UNCHANGED tresult
  /\ UNCHANGED <<config, tstate, members, calls>>
  /\ UNCHANGED <<wfvars, rvars, lvars>>

\* The member the loop of run r is at, and whether it is the last one.
Member(r) == todo[r][tpos[r]]
Last(r) == tpos[r] = Len(todo[r])
\* Run r is about to call the agent of a loaded member under a strategy of S.
AtMember(r, S) ==
  /\ tpc[r] = "running"
  /\ config.strategy \in S
  /\ Member(r).agent_id \in members
\* The calls history after agent.execute(input, self.context).
Called(r, input, outcome) ==
  Append(calls, [run |-> r, agent_id |-> Member(r).agent_id, input |-> input,
                 shared_data |-> invoked_with[r], outcome |-> outcome])

\* agent = self.members[member.agent_id] for a member that was not loaded:
\* the KeyError is raised outside every try of the strategies, leaves the
\* strategy and execute turns it into an error result.
MemberLookupFails(r) ==
  /\ tpc[r] = "running"
  /\ Member(r).agent_id \notin members
  /\ Return(r, ErrorResult("KeyError"))
  /\ UNCHANGED <<config, tstate, members, context, calls>>
  /\ UNCHANGED <<wfvars, rvars, lvars>>

\* Variant: a required member that returns an error result is treated like
\* an optional one, and the loop goes on.
SequentialStepGoesOn(r, outcome) ==
  /\ AtMember(r, {"sequential"})
  /\ calls' = Called(r, TeamTask, outcome)
  /\ LET member == Member(r)
         result == AgentExecute(member.agent_id, TeamTask, outcome)
         recorded == ResultsSet(agent_results[r], member.agent_id, result)
     IN
     CASE result.status = "success" ->
            LET outs == DictSet(outputs[r], member.agent_id, result.outputs)
                shared_data == DictSet(context.shared_data,
                                       member.agent_id \o "_output",
                                       result.outputs)
            IN /\ context' = [context EXCEPT !.shared_data = shared_data]
               /\ IF Last(r)
                  THEN EndOfLoop(r, recorded, outs, current_input[r], shared_data)
                  ELSE Continue(r, recorded, outs, current_input[r], shared_data)
       [] result.status = "error" ->
            /\ UNCHANGED context
            /\ IF Last(r)
               THEN EndOfLoop(r, recorded, outputs[r], current_input[r],
                              context.shared_data)
               ELSE Continue(r, recorded, outputs[r], current_input[r], context.shared_data)
       [] result.status = "raised" ->
            /\ UNCHANGED context
            /\ IF member.required
               THEN Return(r, TeamResult("error", outputs[r], agent_results[r],
                                         EmptyDict, "Required agent error"))
               ELSE IF Last(r)
               THEN EndOfLoop(r, agent_results[r], outputs[r], current_input[r],
                              context.shared_data)
               ELSE Continue(r, agent_results[r], outputs[r], current_input[r], context.shared_data)
  /\ UNCHANGED <<config, tstate, members>>
  /\ UNCHANGED <<wfvars, rvars, lvars>>

\* One iteration of the loop of _execute_sequential.
SequentialStep(r, outcome) ==
  /\ AtMember(r, {"sequential"})
  /\ calls' = Called(r, TeamTask, outcome)
  /\ LET member == Member(r)
         result == AgentExecute(member.agent_id, TeamTask, outcome)
         recorded == ResultsSet(agent_results[r], member.agent_id, result)
     IN
     CASE result.status = "success" ->
            LET outs == DictSet(outputs[r], member.agent_id, result.outputs)
                shared_data == DictSet(context.shared_data,
                                       member.agent_id \o "_output",
                                       result.outputs)
            IN /\ context' = [context EXCEPT !.shared_data = shared_data]
               /\ IF Last(r)
                  THEN EndOfLoop(r, recorded, outs, current_input[r], shared_data)
                  ELSE Continue(r, recorded, outs, current_input[r], shared_data)
       [] result.status = "error" ->
            /\ UNCHANGED context
            /\ IF member.required
               THEN Return(r, TeamResult("error", outputs[r], recorded, EmptyDict,
                                         "Required agent failed"))
               ELSE IF Last(r)
               THEN EndOfLoop(r, recorded, outputs[r], current_input[r],
                              context.shared_data)
               ELSE Continue(r, recorded, outputs[r], current_input[r], context.shared_data)
       [] result.status = "raised" ->
            /\ UNCHANGED context
            /\ IF member.required
               THEN Return(r, TeamResult("error", outputs[r], agent_results[r],
                                         EmptyDict, "Required agent error"))
               ELSE IF Last(r)
               THEN EndOfLoop(r, agent_results[r], outputs[r], current_input[r],
                              context.shared_data)
               ELSE Continue(r, agent_results[r], outputs[r], current_input[r], context.shared_data)
  /\ UNCHANGED <<config, tstate, members>>
  /\ UNCHANGED <<wfvars, rvars, lvars>>

\* One iteration of the loop of _execute_parallel, which runs the members
\* one after the other in configuration order; _execute_consensus runs the
\* same loop.  The status of a returned result is not looked at beyond
\* collecting the outputs of a success.
ParallelStep(r, outcome) ==
  /\ AtMember(r, {"parallel", "consensus"})
  /\ calls' = Called(r, TeamTask, outcome)
  /\ LET member == Member(r)
         result == AgentExecute(member.agent_id, TeamTask, outcome)
         recorded == ResultsSet(agent_results[r], member.agent_id, result)
     IN
     CASE result.status = "success" ->
            LET outs == DictSet(outputs[r], member.agent_id, result.outputs) IN
            IF Last(r)
            THEN EndOfLoop(r, recorded, outs, current_input[r], context.shared_data)
            ELSE Continue(r, recorded, outs, current_input[r], context.shared_data)
       [] result.status = "error" ->
            IF Last(r)
            THEN EndOfLoop(r, recorded, outputs[r], current_input[r],
                           context.shared_data)
            ELSE Continue(r, recorded, outputs[r], current_input[r], context.shared_data)
       [] result.status = "raised" ->
            IF member.required
            THEN ParallelReturn(r, TeamResult("error", outputs[r], agent_results[r],
                                              EmptyDict, result.error))
            ELSE IF Last(r)
            THEN EndOfLoop(r, agent_results[r], outputs[r], current_input[r],
                           context.shared_data)
            ELSE Continue(r, agent_results[r], outputs[r], current_input[r], context.shared_data)
  /\ UNCHANGED <<config, tstate, members, context>>
  /\ UNCHANGED <<wfvars, rvars, lvars>>

\* _execute_leader_follower, the call of the leader.  No try surrounds it:
\* an exception leaves the strategy and execute builds the error result.
LeaderStep(r, outcome) ==
  /\ AtMember(r, {"leader_follower"})
  /\ tpos[r] = 1
  /\ calls' = Called(r, TeamTask, outcome)
  /\ LET member == Member(r)
         leader_result == AgentExecute(member.agent_id, TeamTask, outcome)
         recorded == ResultsSet(agent_results[r], member.agent_id, leader_result)
     IN
     CASE leader_result.status = "success" ->
            LET outs == [leader |-> leader_result.outputs]
                shared_data == DictSet(context.shared_data, "leader_output",
                                       leader_result.outputs)
            IN /\ context' = [context EXCEPT !.shared_data = shared_data]
               /\ IF Last(r)
                  THEN EndOfLoop(r, recorded, outs, current_input[r], shared_data)
                  ELSE Continue(r, recorded, outs, current_input[r], shared_data)
       [] leader_result.status = "error" ->
            /\ UNCHANGED context
            /\ Return(r, TeamResult("error", EmptyDict, recorded, EmptyDict,
                                    "Leader failed"))
       [] leader_result.status = "raised" ->
            /\ UNCHANGED context
            /\ Return(r, ErrorResult(leader_result.error))
  /\ UNCHANGED <<config, tstate, members>>
  /\ UNCHANGED <<wfvars, rvars, lvars>>

\* _execute_leader_follower, the call of one follower: its result is
\* recorded whatever its status, an exception leaves the strategy.
FollowerStep(r, outcome) ==
  /\ AtMember(r, {"leader_follower"})
  /\ tpos[r] > 1
  /\ calls' = Called(r, TeamTask, outcome)
  /\ LET member == Member(r)
         result == AgentExecute(member.agent_id, TeamTask, outcome)
         recorded == ResultsSet(agent_results[r], member.agent_id, result)
     IN
     IF result.status = "raised"
     THEN Return(r, ErrorResult(result.error))
     ELSE IF Last(r)
     THEN EndOfLoop(r, recorded, outputs[r], current_input[r], context.shared_data)
     ELSE Continue(r, recorded, outputs[r], current_input[r], context.shared_data)
  /\ UNCHANGED <<config, tstate, members, context>>
  /\ UNCHANGED <<wfvars, rvars, lvars>>

\* Variant: a successful stage does not hand its output on; the next stage
\* receives the same input again.
PipelineStepKeepsInput(r, outcome) ==
  /\ AtMember(r, {"pipeline"})
  /\ calls' = Called(r, current_input[r], outcome)
  /\ LET member == Member(r)
         result == AgentExecute(member.agent_id, current_input[r], outcome)
         recorded == ResultsSet(agent_results[r], member.agent_id, result)
     IN
     CASE result.status = "success" ->
            IF Last(r)
            THEN EndOfLoop(r, recorded, outputs[r], result.outputs,
                           context.shared_data)
            ELSE Continue(r, recorded, outputs[r], current_input[r], context.shared_data)
       [] result.status = "error" ->
            IF member.required
            THEN Return(r, TeamResult("error", EmptyDict, recorded, EmptyDict,
                                      "Pipeline broken"))
            ELSE IF Last(r)
            THEN EndOfLoop(r, recorded, outputs[r], current_input[r],
                           context.shared_data)
            ELSE Continue(r, recorded, outputs[r], current_input[r], context.shared_data)
       [] result.status = "raised" ->
            Return(r, ErrorResult(result.error))
  /\ UNCHANGED <<config, tstate, members, context>>
  /\ UNCHANGED <<wfvars, rvars, lvars>>

\* One stage of _execute_pipeline: the agent receives current_input.  No try
\* surrounds the call: an exception leaves the strategy.
PipelineStep(r, outcome) ==
  /\ AtMember(r, {"pipeline"})
  /\ calls' = Called(r, current_input[r], outcome)
  /\ LET member == Member(r)
         result == AgentExecute(member.agent_id, current_input[r], outcome)
         recorded == ResultsSet(agent_results[r], member.agent_id, result)
     IN
     CASE result.status = "success" ->
            IF Last(r)
            THEN EndOfLoop(r, recorded, outputs[r], result.outputs,
                           context.shared_data)
            ELSE Continue(r, recorded, outputs[r], result.outputs, context.shared_data)
       [] result.status = "error" ->
            IF member.required
            THEN Return(r, TeamResult("error", EmptyDict, recorded, EmptyDict,
                                      "Pipeline broken"))
            ELSE IF Last(r)
            THEN EndOfLoop(r, recorded, outputs[r], current_input[r],
                           context.shared_data)
            ELSE Continue(r, recorded, outputs[r], current_input[r], context.shared_data)
       [] result.status = "raised" ->
            Return(r, ErrorResult(result.error))
  /\ UNCHANGED <<config, tstate, members, context>>
  /\ UNCHANGED <<wfvars, rvars, lvars>>

\* Team.execute, from the call to the returned TeamResult.
TeamRun(r) ==
  \/ TeamExecute(r)
  \/ MemberLookupFails(r)
  \/ \E outcome \in AgentOutcomes : SequentialStep(r, outcome)
  \/ \E outcome \in AgentOutcomes : ParallelStep(r, outcome)
  \/ \E outcome \in AgentOutcomes : LeaderStep(r, outcome)
  \/ \E outcome \in AgentOutcomes : FollowerStep(r, outcome)
  \/ \E outcome \in AgentOutcomes : PipelineStep(r, outcome)

\* -------------------------------------------------------------- registry
\* Agent ids and metadata dicts given to register_agent.
AgentIds == {"a1", "a2"}
Metadatas ==
  {EmptyDict, [name |-> "Test Agent"],
   [name |-> "Test Agent", url |-> "http://test"], [url |-> ""]}

\* Variant: the first registration of an id wins.
register_agentKeepFirst(reg, agent_id, agent_metadata) ==
  IF agent_id \in DOMAIN reg THEN reg ELSE DictSet(reg, agent_id, agent_metadata)

\* AgentManager.register_agent: self.agents[agent_id] = agent_metadata
register_agent(reg, agent_id, agent_metadata) ==
  DictSet(reg, agent_id, agent_metadata)

\* AgentManager.get_agent
get_agent(reg, agent_id) ==
  IF agent_id \in DOMAIN reg THEN reg[agent_id] ELSE None

\* One call of register_agent on the registry.
RegisterAgent(agent_id, agent_metadata) ==
  /\ UNCHANGED sink_failed
  /\ Len(registered) < MaxRegister
  /\ agents' = register_agent(agents, agent_id, agent_metadata)
  /\ registered' = Append(registered, [agent_id |-> agent_id,
                                        agent_metadata |-> agent_metadata])
  /\ UNCHANGED <<store, queue, deliveries, redelivered, nextId, cstate, cargs,
                 enq, emitted, pc, wid, wf, results, final_status, idx,
                 invoked, fail_at>>
  /\ UNCHANGED <<tvars, lvars>>

\* An AgentManager whose definitions directory does not exist: it starts
\* empty and is filled by register_agent calls only.
RInit == WfInitWith(EmptyDict) /\ TeamInit(TeamConfiguration("sequential", <<>>))
RNext == \E agent_id \in AgentIds, agent_metadata \in Metadatas :
           RegisterAgent(agent_id, agent_metadata)
RegistrySpec == RInit /\ [][RNext]_vars

\* -------------------------------------------------------- specifications
Create ==
  /\ UNCHANGED <<tvars, rvars, lvars, sink_failed>>
  /\ \/ \E name \in Names, tasks \in TaskLists, user_id \in Users, ok \in BOOLEAN :
           CreateCommit(name, tasks, user_id, ok)
     \/ \E w \in WorkflowIds, ok \in BOOLEAN : CreateLogEvent(w, ok)
     \/ \E w \in WorkflowIds : CreateEnqueue(w)

Execute ==
  /\ UNCHANGED <<tvars, rvars, lvars, sink_failed>>
  /\ \/ \E p \in Consumers, w \in WorkflowIds : ExecStart(p, w)
     \/ \E p \in Consumers : ExecSetRunning(p)
     \/ \E p \in Consumers, ok \in BOOLEAN : ExecLogStarted(p, ok)
     \/ \E p \in Consumers : ExecTaskUnresolved(p)
     \/ \E p \in Consumers, outcome \in Outcomes, ok \in BOOLEAN :
           ExecTaskInvoke(p, outcome, ok)
     \/ \E p \in Consumers : ExecWriteResults(p)
     \/ \E p \in Consumers : ExecWriteStatus(p)
     \/ \E p \in Consumers, ok \in BOOLEAN : ExecLogFinished(p, ok)

\* Every message is delivered exactly once.
NextOnce == Create \/ Execute
SpecOnce == Init /\ [][NextOnce]_vars

\* The queue may deliver a message again.
Next == Create \/ Execute \/ \E w \in WorkflowIds : Redeliver(w)
Spec == Init /\ [][Next]_vars

\* Create and execute with every id delivered once, recording whether a
\* log_event call failed to deliver its event (the step made the call with
\* ok = FALSE).  The owner plays no part in event logging: one caller.
SinkNext ==
  /\ UNCHANGED <<tvars, rvars, lvars>>
  /\ \E ok \in BOOLEAN :
       /\ \/ \E name \in Names, tasks \in TaskLists, commit_ok \in BOOLEAN :
                CreateCommit(name, tasks, 1, commit_ok)
          \/ \E w \in WorkflowIds : CreateLogEvent(w, ok)
          \/ \E w \in WorkflowIds : CreateEnqueue(w)
          \/ \E p \in Consumers, w \in WorkflowIds : ExecStart(p, w)
          \/ \E p \in Consumers : ExecSetRunning(p)
          \/ \E p \in Consumers : ExecLogStarted(p, ok)
          \/ \E p \in Consumers : ExecTaskUnresolved(p)
          \/ \E p \in Consumers, outcome \in Outcomes :
                ExecTaskInvoke(p, outcome, ok)
          \/ \E p \in Consumers : ExecWriteResults(p)
          \/ \E p \in Consumers : ExecWriteStatus(p)
          \/ \E p \in Consumers : ExecLogFinished(p, ok)
       /\ sink_failed' = (sink_failed \/ (~ok /\ emitted' # emitted))
SinkSpec == Init /\ [][SinkNext]_vars

\* One team, constructed and run once.
TNext == TeamConstruct \/ TeamRun(1)
TeamSpec == TInit /\ [][TNext]_vars

\* One team, constructed once; execute is called twice on it and the two
\* runs interleave at their awaits.
TNextTwo == TeamConstruct \/ \E r \in Runs : TeamRun(r)
TeamSpecTwo == TInit /\ [][TNextTwo]_vars

\* A LEADER_FOLLOWER team of a leader and up to MaxFollowers followers, all
\* of them agents the registry knows; execute is called once.
LeaderTeams ==
  {TeamConfiguration("leader_follower", ms) :
     ms \in {l \in SeqsUpTo({TeamMember(a, p, q) :
                               a \in RegisteredAgents, p \in Priorities,
                               q \in BOOLEAN},
                            MaxFollowers + 1) :
               /\ l # <<>>
               /\ \A i, j \in 1..Len(l) : i # j => l[i].agent_id # l[j].agent_id}}
LInit == WfInit /\ \E cfg \in LeaderTeams : TeamInit(cfg)
LNext ==
  \/ TeamConstruct
  \/ TeamExecute(1)
  \/ \E outcome \in AgentOutcomes : LeaderStep(1, outcome)
  \/ \E outcome \in AgentOutcomes : FollowerStep(1, outcome)
LeaderSpec == LInit /\ [][LNext]_vars

\* One RateLimiter and the requests of two clients as time passes.
LNextLimiter ==
  \/ \E client_id \in Clients, d \in Drifts : RateLimiterCall(client_id, d)
  \/ \E d \in Jumps : Advance(d)
LimiterSpec == Init /\ [][LNextLimiter]_vars

\* ----------------------------------------------------------------------
\* Properties of the workflow coordinator
\* ----------------------------------------------------------------------
HasRow(w) == store[w] # NoRow
Terminal == {"completed", "failed"}
StatusRank(status) ==
  CASE status = "pending" -> 0
    [] status = "running" -> 1
    [] status \in Terminal -> 2
\* The consumer is inside the task loop of execute_workflow.
InLoop(p) == pc[p] = "task"
\* The consumer has started execute_workflow and has not left it.
Executing(p) ==
  pc[p] \in {"set_running", "log_started", "task", "write_results",
             "write_status", "log_finished"}

\* C1: the stored status of a workflow never regresses along
\* pending -> running -> {completed, failed}, whatever the interleaving of
\* create, deliveries (the same id may be delivered again) and execute steps.
C1_StatusNeverRegresses ==
  [][\A w \in WorkflowIds :
       HasRow(w) => StatusRank(store'[w].status) >= StatusRank(store[w].status)]_vars

\* C2: with every id delivered once, a row is created pending, every change
\* of its status is pending->running, running->completed or running->failed,
\* and no execution is about to write the status of a workflow that is
\* completed or failed.
C2_StatusTransitions ==
  /\ [](\A w \in WorkflowIds, p \in Consumers :
          HasRow(w) /\ store[w].status \in Terminal /\ wid[p] = w
            => pc[p] \in {"log_finished", "done"})
  /\ [][\A w \in WorkflowIds :
          /\ ~HasRow(w) /\ store'[w] # NoRow => store'[w].status = "pending"
          /\ HasRow(w) /\ store'[w].status # store[w].status
               => <<store[w].status, store'[w].status>> \in
                    {<<"pending", "running">>, <<"running", "completed">>,
                     <<"running", "failed">>}]_vars
C2_Witness ==
  \E w \in WorkflowIds : HasRow(w) /\ store[w].status = "failed"
                                    /\ deliveries[w] = 1

\* C3: an execution that has set its workflow to running has set it to
\* completed or failed when it ends, whatever the worker calls did.
C3_ExecutionEndsTerminal ==
  \A p \in Consumers :
    pc[p] \in {"done", "raised"} /\ wid[p] \in WorkflowIds /\ HasRow(wid[p])
      => store[wid[p]].status \in Terminal

\* C4: a workflow is completed only if every task resolved and every worker
\* response had status success; a response with status error makes it failed.
C4_CompletedOnlyIfAllSucceeded ==
  \A w \in WorkflowIds :
    HasRow(w) /\ store[w].status = "completed"
      => LET res == json_loads(store[w].results)
             tasks == json_loads(store[w].tasks) IN
         /\ Len(res) = Len(tasks)
         /\ \A i \in 1..Len(tasks) : get_agent_url(agents, tasks[i].agent_id) # None
         /\ \A i \in 1..Len(res) : res[i].status = "success"

\* C5: when the loop breaks at task k (agent not registered, or transport
\* error / timeout), no later task is invoked, no exception leaves execute,
\* the local results are those of tasks 1..k-1 in order, and once the two
\* final writes are done the row is failed and the owner's status query
\* returns exactly those results.
C5_FailureAtTaskK ==
  \A p \in Consumers :
    fail_at[p] # 0 =>
      LET k == fail_at[p]
          w == wid[p]
          q == get_workflow_status(store, w, store[w].user_id) IN
      /\ pc[p] \in {"write_results", "write_status", "log_finished"}
      /\ final_status[p] = "failed"
      /\ \A j \in 1..Len(invoked[p]) : invoked[p][j] = j /\ j <= k
      /\ Len(results[p]) = k - 1
      /\ \A i \in 1..(k - 1) : results[p][i].task = i
      /\ pc[p] \in {"write_status", "log_finished"} => q.results = results[p]
      /\ pc[p] = "log_finished" => q.status = "failed"
C5_Witness ==
  \E p \in Consumers :
    /\ pc[p] = "log_finished" /\ fail_at[p] = 2
    /\ get_workflow_status(store, wid[p], store[wid[p]].user_id).results
         = <<Result(1, "success")>>

\* C6: a workflow is visible to its owner only: for every other owner value
\* the status query returns NotFound and the list does not contain it; the
\* list of an owner is exactly the summaries of the workflows it owns.
C6_OwnerIsolation ==
  \A w \in WorkflowIds, o \in OwnerValues :
    /\ HasRow(w) /\ o # store[w].user_id
         => /\ get_workflow_status(store, w, o) = NotFound
            /\ \A e \in get_workflows_for_user(store, o) : e.id # w
    /\ get_workflows_for_user(store, o) =
         {[id |-> x, name |-> store[x].name, status |-> store[x].status] :
            x \in {y \in WorkflowIds : HasRow(y) /\ store[y].user_id = o}}

CreatedEvents(w) ==
  {i \in 1..Len(emitted[w]) : emitted[w][i].type = "workflow_created"}
PendingRow(w) ==
  [id |-> w, name |-> cargs[w].name, tasks |-> json_dumps(cargs[w].tasks),
   status |-> "pending", results |-> json_dumps(<<>>),
   user_id |-> cargs[w].user_id]
C8_CreateCommitsThenEnqueues ==
  /\ [](\A w \in WorkflowIds :
          /\ cstate[w] \in {"unused", "commit_failed"}
               => ~HasRow(w) /\ enq[w] = 0 /\ queue[w] = 0 /\ emitted[w] = <<>>
          /\ cstate[w] = "committed"
               => store[w] = PendingRow(w) /\ enq[w] = 0 /\ emitted[w] = <<>>
          /\ cstate[w] = "logged"
               => store[w] = PendingRow(w) /\ enq[w] = 0
                  /\ emitted[w] = <<Event("workflow_created", None)>>
          /\ cstate[w] = "returned"
               => HasRow(w) /\ enq[w] = 1 /\ Cardinality(CreatedEvents(w)) = 1
                  /\ emitted[w][1].type = "workflow_created"
          /\ HasRow(w) => /\ store[w].name = cargs[w].name
                          /\ json_loads(store[w].tasks) = cargs[w].tasks
                          /\ store[w].user_id = cargs[w].user_id
          /\ queue[w] + deliveries[w] = enq[w])
  /\ [](\A p \in Consumers : wid[p] # 0 => HasRow(wid[p]))
  /\ [][\A w \in WorkflowIds :
          ~HasRow(w) /\ store'[w] # NoRow => store'[w] = PendingRow(w)']_vars
C8_Witness ==
  \E w \in WorkflowIds, p \in Consumers :
    cstate[w] = "returned" /\ wid[p] = w /\ pc[p] = "set_running"

\* ----------------------------------------------------------------------
\* Properties of the team executor
\* ----------------------------------------------------------------------
\* The configured member of an agent id.
MemberOf(agent_id) ==
  config.members[CHOOSE i \in 1..Len(config.members) :
                   config.members[i].agent_id = agent_id]
\* The calls of run r whose agent failed, by an error result or by raising.
FailedCalls(r) ==
  {i \in 1..Len(calls) : calls[i].run = r /\ calls[i].outcome \in {"error", "raise"}}
\* The recorded result of an agent in a TeamResult, if there is one.
Recorded(res, agent_id) ==
  {res.agent_results[i][2] :
     i \in {j \in 1..Len(res.agent_results) : res.agent_results[j][1] = agent_id}}

\* C9: under every strategy, a run in which a required member was invoked
\* and failed (error result or exception) returns status error.
C9_RequiredFailureIsError ==
  \A r \in Runs :
    tpc[r] = "returned"
    /\ (\E i \in FailedCalls(r) : MemberOf(calls[i].agent_id).required)
      => tresult[r].status = "error"

\* A team with at least one member, whose members are all optional and all
\* loaded from the registry.
AllOptional ==
  /\ config.members # <<>>
  /\ \A i \in 1..Len(config.members) :
       ~config.members[i].required /\ config.members[i].agent_id \in members

\* C10: under every strategy, a run of a team whose members are all
\* optional returns status success whichever members failed (error result
\* or exception), and every member that failed is in the per-agent results
\* with status error.
C10_OptionalFailuresTolerated ==
  \A r \in Runs :
    tpc[r] = "returned" /\ AllOptional
      => /\ tresult[r].status = "success"
         /\ \A i \in FailedCalls(r) :
              /\ Recorded(tresult[r], calls[i].agent_id) # {}
              /\ \A res \in Recorded(tresult[r], calls[i].agent_id) :
                   res.status = "error"

\* The ids of the calls of run r, in call order.
CallIds(r) ==
  LET own == SelectSeq(calls, LAMBDA c : c.run = r) IN
  [i \in 1..Len(own) |-> own[i].agent_id]
\* The position of an agent id in the configured member list.
ConfigIndex(agent_id) ==
  CHOOSE i \in 1..Len(config.members) : config.members[i].agent_id = agent_id
\* Member a goes before member b: higher priority, or the same priority and
\* earlier in the configuration.
Before(a, b) ==
  \/ MemberOf(a).priority > MemberOf(b).priority
  \/ /\ MemberOf(a).priority = MemberOf(b).priority
     /\ ConfigIndex(a) < ConfigIndex(b)
\* The agent ids of the per-agent results of a TeamResult, in dict order.
ResultIds(res) == [i \in 1..Len(res.agent_results) |-> res.agent_results[i][1]]

\* C11: in SEQUENTIAL the members are invoked one at a time in descending
\* priority, equal priorities in configuration order, none is skipped, and
\* the per-agent results of the TeamResult follow that same order; a run in
\* which every member succeeded has a result for every member.
C11_SequentialOrder ==
  \A r \in Runs :
    config.strategy = "sequential" =>
      LET ids == CallIds(r) IN
      /\ \A i, j \in 1..Len(ids) : i < j => Before(ids[i], ids[j])
      /\ \A i \in 1..Len(ids), k \in 1..Len(config.members) :
           Before(config.members[k].agent_id, ids[i])
             => \E j \in 1..(i - 1) : ids[j] = config.members[k].agent_id
      /\ tpc[r] = "running" => Len(ids) = tpos[r] - 1
      /\ tpc[r] = "returned" =>
           LET rids == ResultIds(tresult[r]) IN
           /\ \A i, j \in 1..Len(rids) : i < j => Before(rids[i], rids[j])
           /\ \A i \in 1..Len(rids) : \E j \in 1..Len(ids) : ids[j] = rids[i]
           /\ tresult[r].status = "success" /\ FailedCalls(r) = {}
                => Len(rids) = Len(config.members)
C11_Witness ==
  \E r \in Runs :
    /\ config.strategy = "sequential" /\ tpc[r] = "returned"
    /\ Len(config.members) = 2
    /\ config.members[1].priority < config.members[2].priority
    /\ ResultIds(tresult[r]) =
         <<config.members[2].agent_id, config.members[1].agent_id>>

\* The calls of run r, in call order.
CallsOf(r) == SelectSeq(calls, LAMBDA c : c.run = r)
\* Run r has called every configured member and every call succeeded.
AllSucceeded(r) ==
  /\ config.members # <<>>
  /\ Len(CallsOf(r)) = Len(config.members)
  /\ \A i \in 1..Len(CallsOf(r)) : CallsOf(r)[i].outcome = "success"

\* C12: in a SEQUENTIAL run, the shared data a member is invoked with holds
\* under '<id>_output' the output of every member that succeeded earlier in
\* the run, and no such key for a member that failed or has not run; when
\* every member succeeded, the result is success and outputs maps every
\* member id to its output.
C12_SequentialSharedContext ==
  \A r \in Runs :
    config.strategy = "sequential" =>
      LET cs == CallsOf(r) IN
      /\ \A i \in 1..Len(cs), k \in 1..Len(config.members) :
           LET id == config.members[k].agent_id
               key == id \o "_output"
               succeeded == \E j \in 1..(i - 1) :
                              cs[j].agent_id = id /\ cs[j].outcome = "success"
           IN /\ succeeded <=> key \in DOMAIN cs[i].shared_data
              /\ succeeded => cs[i].shared_data[key] = AgentOutput(id, TeamTask)
      /\ tpc[r] = "returned" /\ AllSucceeded(r) =>
           /\ tresult[r].status = "success"
           /\ tresult[r].outputs =
                [id \in {config.members[k].agent_id : k \in 1..Len(config.members)}
                   |-> AgentOutput(id, TeamTask)]

\* C13: in PIPELINE, when a required stage fails after an earlier stage
\* succeeded, the result has status error, the failing stage is in the
\* per-agent results with status error, no later stage is invoked, and
\* outputs is what the earlier successful stages accumulated, that is the
\* input the failing stage received.
C13_PipelineRequiredFailure ==
  \A r \in Runs :
    config.strategy = "pipeline" /\ tpc[r] = "returned" =>
      LET cs == CallsOf(r) IN
      \A i \in 2..Len(cs) :
        /\ cs[i].outcome \in {"error", "raise"}
        /\ MemberOf(cs[i].agent_id).required
        /\ \E j \in 1..(i - 1) : cs[j].outcome = "success"
        => /\ tresult[r].status = "error"
           /\ Recorded(tresult[r], cs[i].agent_id) # {}
           /\ \A res \in Recorded(tresult[r], cs[i].agent_id) : res.status = "error"
           /\ Len(cs) = i
           /\ tresult[r].outputs = cs[i].input

\* C14: no exception reaches the caller of the team: for every strategy,
\* every member list (empty, or naming agents the registry does not know) and
\* every agent behaviour, the constructor does not raise and every call of
\* execute returns a TeamResult with status success or error in which every
\* agent that failed is recorded with status error.
C14_NeverPropagates ==
  /\ tstate # "load_raised"
  /\ \A r \in Runs :
       tpc[r] = "returned" =>
         /\ tresult[r].status \in {"success", "error"}
         /\ \A i \in FailedCalls(r) :
              /\ Recorded(tresult[r], calls[i].agent_id) # {}
              /\ \A res \in Recorded(tresult[r], calls[i].agent_id) :
                   res.status = "error"

\* C15: a misconfigured team fails fast: for an empty member list, under
\* every strategy, and for a strategy that is none of the five, execute
\* returns status error and no agent is invoked.
Misconfigured == config.members = <<>> \/ config.strategy \notin TeamStrategy
C15_MisconfiguredFailsFast ==
  \A r \in Runs :
    Misconfigured /\ tpc[r] # "idle" =>
      /\ CallsOf(r) = <<>>
      /\ tpc[r] = "returned" /\ tresult[r].status = "error"

\* ----------------------------------------------------------------------
\* Properties of the worker registry
\* ----------------------------------------------------------------------
\* The register_agent calls made for an id, as indices of the history.
RegisteredAs(agent_id) ==
  {i \in 1..Len(registered) : registered[i].agent_id = agent_id}
\* The index of the most recent call for an id.
LastRegistered(agent_id) ==
  CHOOSE i \in RegisteredAs(agent_id) : \A j \in RegisteredAs(agent_id) : j <= i

\* C16: after any sequence of register_agent calls the registry has one
\* entry for every id that was registered and for no other, holding the
\* metadata of the most recent call for that id; a call changes no entry
\* but the one of its id.
C16_RegisterUpsert ==
  /\ [](/\ DOMAIN agents = {registered[i].agent_id : i \in 1..Len(registered)}
        /\ \A id \in DOMAIN agents :
             agents[id] = registered[LastRegistered(id)].agent_metadata)
  /\ [][\A id \in DOMAIN agents :
          registered' # registered /\ registered'[Len(registered')].agent_id # id
            => id \in DOMAIN agents' /\ agents'[id] = agents[id]]_vars
C16_Witness ==
  \E id \in AgentIds :
    /\ Cardinality(RegisteredAs(id)) >= 2
    /\ registered[LastRegistered(id)].agent_metadata
         # registered[CHOOSE i \in RegisteredAs(id) : TRUE].agent_metadata
    /\ DOMAIN agents = AgentIds

\* The metadata carries a url (a non-empty one).
HasUrl(agent_metadata) ==
  "url" \in DOMAIN agent_metadata /\ agent_metadata["url"] # ""

\* C17: get_agent_url returns an endpoint for every registered id whatever
\* its metadata, the registered url when the metadata has one and the
\* default generic endpoint otherwise, and returns None exactly for the ids
\* that are not registered.
C17_ResolveRegistered ==
  \A id \in AgentIds :
    /\ id \notin DOMAIN agents <=> get_agent_url(agents, id) = None
    /\ id \in DOMAIN agents =>
         get_agent_url(agents, id) =
           IF HasUrl(agents[id]) THEN agents[id]["url"] ELSE GENERIC_AGENT_URL

\* ----------------------------------------------------------------------
\* Properties of the event sink
\* ----------------------------------------------------------------------
\* C18: a failed event delivery never fails the workflow.  Whether or not
\* its event is delivered, the log_event call of create is followed by the
\* enqueue, every log_event call of execute leaves the execution at the same
\* next position, an execution is ended by an exception only in a task step
\* that logged nothing, and an execution that logs workflow_finished has
\* persisted exactly its final status and its results.
C18_SinkFailureSwallowed ==
  /\ [](\A w \in WorkflowIds :
          /\ cstate[w] # "log_raised"
          /\ cstate[w] = "returned" => enq[w] = 1)
  /\ [][\A w \in WorkflowIds :
          cstate[w] = "committed" /\ cstate'[w] # cstate[w]
            => cstate'[w] = "logged" /\ emitted'[w] # emitted[w]]_vars
  /\ [][\A p \in Consumers :
          /\ pc'[p] = "raised" /\ pc[p] # "raised"
               => pc[p] = "task" /\ emitted' = emitted
          /\ pc[p] = "log_started" /\ pc'[p] # pc[p]
               => pc'[p] = (IF Len(Tasks(p)) = 0 THEN "write_results" ELSE "task")
          /\ pc[p] = "log_finished" /\ pc'[p] # pc[p]
               => /\ pc'[p] = "done"
                  /\ store' = store
                  /\ store[wid[p]].status = final_status[p]
                  /\ json_loads(store[wid[p]].results) = results[p]]_vars
C18_Witness ==
  /\ sink_failed
  /\ \E p \in Consumers :
       /\ pc[p] = "done" /\ wid[p] \in WorkflowIds
       /\ cstate[wid[p]] = "returned"
       /\ store[wid[p]].status = "completed"
       /\ Len(json_loads(store[wid[p]].results)) = Len(json_loads(store[wid[p]].tasks))
       /\ Len(json_loads(store[wid[p]].results)) >= 1

\* ----------------------------------------------------------------------
\* Properties of the team executor (continued)
\* ----------------------------------------------------------------------
\* The shared-data keys run r has written before the call at index i of the
\* history: '<id>_output' for every earlier success under SEQUENTIAL,
\* 'leader_output' for an earlier success of the leader under LEADER_FOLLOWER.
WrittenBefore(r, i) ==
  LET earlier == {j \in 1..(i - 1) : calls[j].run = r /\ calls[j].outcome = "success"}
  IN CASE config.strategy = "sequential" ->
            {calls[j].agent_id \o "_output" : j \in earlier}
       [] config.strategy = "leader_follower" ->
            IF earlier # {} THEN {"leader_output"} ELSE {}
       [] OTHER -> {}

\* C19: the shared context belongs to one run: the shared data a member is
\* invoked with holds the configured seed and exactly the keys written
\* earlier in the same run, whether the runs of a Team follow one another or
\* interleave.
C19_ContextScopedToRun ==
  \A i \in 1..Len(calls) :
    DOMAIN calls[i].shared_data =
      DOMAIN config.shared_context \cup WrittenBefore(calls[i].run, i)

\* The required members of run r that failed: positions in the calls of r.
RequiredFailures(r) ==
  {i \in 1..Len(CallsOf(r)) :
     /\ CallsOf(r)[i].outcome \in {"error", "raise"}
     /\ MemberOf(CallsOf(r)[i].agent_id).required}
\* The outputs of the members of run r that succeeded before its i-th call.
SucceededBefore(r, i) ==
  [id \in {CallsOf(r)[j].agent_id :
             j \in {k \in 1..(i - 1) : CallsOf(r)[k].outcome = "success"}}
     |-> AgentOutput(id, TeamTask)]

\* C20: in SEQUENTIAL, when a required member fails, by an error result or
\* by raising, the run stops at once: no later member is invoked, the result
\* has status error with a non-empty error message, and outputs holds exactly
\* the outputs of the members that succeeded before it, also when an optional
\* member of higher priority failed earlier in the run.
C20_SequentialRequiredFailureStops ==
  \A r \in Runs :
    config.strategy = "sequential" =>
      \A i \in RequiredFailures(r) :
        /\ Len(CallsOf(r)) = i
        /\ tpc[r] = "returned"
        /\ tresult[r].status = "error"
        /\ tresult[r].error \notin {None, ""}
        /\ tresult[r].outputs = SucceededBefore(r, i)
C20_Witness ==
  \E r \in Runs :
    /\ config.strategy = "sequential" /\ tpc[r] = "returned"
    /\ RequiredFailures(r) = {2}
    /\ CallsOf(r)[1].outcome \in {"error", "raise"}
    /\ MemberOf(CallsOf(r)[1].agent_id).priority
         > MemberOf(CallsOf(r)[2].agent_id).priority
    /\ tresult[r].status = "error"

\* The optional members of run r that failed: positions in the calls of r.
OptionalFailures(r) ==
  {i \in 1..Len(CallsOf(r)) :
     /\ CallsOf(r)[i].outcome \in {"error", "raise"}
     /\ ~MemberOf(CallsOf(r)[i].agent_id).required}
\* The per-agent results of run r so far: the dict of the running strategy,
\* or the one of the TeamResult once execute has returned.
ResultsSoFar(r) ==
  IF tpc[r] = "returned" THEN tresult[r].agent_results ELSE agent_results[r]

\* C21: in SEQUENTIAL, when an optional member fails, by an error result or
\* by raising, the failure is recorded in the per-agent results with status
\* error, the member that follows it in priority order is still invoked (the
\* run does not end at the failure unless it was the last member or the next
\* member was never loaded), and the failed member has no '<id>_output' key in
\* the shared data any later member is invoked with or the run ends with.
C21_SequentialOptionalFailure ==
  \A r \in Runs :
    config.strategy = "sequential" =>
      LET cs == CallsOf(r) IN
      \A i \in OptionalFailures(r) :
        /\ \E k \in 1..Len(ResultsSoFar(r)) :
             /\ ResultsSoFar(r)[k][1] = cs[i].agent_id
             /\ ResultsSoFar(r)[k][2].status = "error"
        /\ tpc[r] = "returned" /\ Len(cs) = i =>
             \/ i = Len(config.members)
             \/ sorted(config.members)[i + 1].agent_id \notin members
        /\ \A j \in (i + 1)..Len(cs) :
             (cs[i].agent_id \o "_output") \notin DOMAIN cs[j].shared_data
        /\ (cs[i].agent_id \o "_output") \notin DOMAIN context.shared_data

\* What the i-th call of run r returned as outputs: an error result carries
\* the empty outputs of AgentResult.
OutputOf(r, i) ==
  AgentExecute(CallsOf(r)[i].agent_id, CallsOf(r)[i].input,
               CallsOf(r)[i].outcome).outputs
\* The calls of run r before its i-th that succeeded.
SuccessesBefore(r, i) ==
  {j \in 1..(i - 1) : CallsOf(r)[j].outcome = "success"}
\* The stages of run r were called in descending priority, equal priorities
\* in configuration order, the first one with the original input.
PipelineOrder(r) ==
  LET ids == CallIds(r) IN
  /\ \A i, j \in 1..Len(ids) : i < j => Before(ids[i], ids[j])
  /\ tpc[r] = "running" => Len(ids) = tpos[r] - 1
  /\ Len(ids) >= 1 => CallsOf(r)[1].input = TeamTask

C23_PipelineLastSuccessfulOutput ==
  \A r \in Runs :
    /\ config.strategy = "pipeline" /\ tpc[r] = "returned"
    /\ tresult[r].status = "success" /\ CallsOf(r) # <<>>
    => LET succeeded == SuccessesBefore(r, Len(CallsOf(r)) + 1) IN
       /\ succeeded # {}
       /\ tresult[r].outputs =
            OutputOf(r, CHOOSE j \in succeeded : \A i \in succeeded : i <= j)

\* C24: in LEADER_FOLLOWER the first member invoked is the one of highest
\* priority; if it fails, by an error result or by raising, the run ends with
\* status error and no follower is invoked; if it succeeds, every follower is
\* invoked with its output under 'leader_output' in the shared data, and when
\* the run has returned every other member has been invoked exactly once.
C24_LeaderFollower ==
  \A r \in Runs :
    config.strategy = "leader_follower" /\ CallsOf(r) # <<>> =>
      LET cs == CallsOf(r)
          lead == leader(config.members).agent_id
      IN
      /\ cs[1].agent_id = lead
      /\ \A k \in 1..Len(config.members) :
           config.members[k].priority <= MemberOf(lead).priority
      /\ cs[1].outcome # "success" =>
           /\ tpc[r] = "returned" /\ tresult[r].status = "error"
           /\ Len(cs) = 1
      /\ cs[1].outcome = "success" =>
           /\ \A j \in 2..Len(cs) :
                /\ "leader_output" \in DOMAIN cs[j].shared_data
                /\ cs[j].shared_data["leader_output"] = OutputOf(r, 1)
           /\ \A k \in 1..Len(config.members) :
                config.members[k].agent_id # lead =>
                  LET n == Cardinality({j \in 2..Len(cs) :
                                          cs[j].agent_id = config.members[k].agent_id})
                  IN /\ n <= 1
                     /\ tpc[r] = "returned" => n = 1

\* Every configured member was loaded by the constructor.
AllLoaded ==
  \A k \in 1..Len(config.members) : config.members[k].agent_id \in members

\* C25: a PARALLEL run of a team whose members all resolved returns only
\* after every member has been invoked exactly once with the original input;
\* the result of every member that returned one is recorded under its id; and
\* a required member's failure makes the status error.
C25_ParallelFanOutFanIn ==
  \A r \in Runs :
    config.strategy = "parallel" /\ AllLoaded /\ tpc[r] = "returned" =>
      LET cs == CallsOf(r) IN
      /\ \A k \in 1..Len(config.members) :
           Cardinality({j \in 1..Len(cs) :
                          /\ cs[j].agent_id = config.members[k].agent_id
                          /\ cs[j].input = TeamTask}) = 1
      /\ Len(cs) = Len(config.members)
      /\ \A j \in 1..Len(cs) :
           cs[j].outcome # "raise" =>
             \E res \in Recorded(tresult[r], cs[j].agent_id) :
               res = AgentExecute(cs[j].agent_id, cs[j].input, cs[j].outcome)
      /\ RequiredFailures(r) # {} => tresult[r].status = "error"

\* The calls of run r that succeeded and whose output has key k, in call
\* order: positions in the calls of r.
RECURSIVE ValuesFor(_, _, _)
ValuesFor(r, k, n) ==
  IF n = 0 THEN <<>>
  ELSE ValuesFor(r, k, n - 1) \o
         (IF CallsOf(r)[n].outcome = "success" /\ k \in DOMAIN OutputOf(r, n)
          THEN <<OutputOf(r, n)[k]>> ELSE <<>>)
\* The key names of the outputs of the calls of run r that succeeded.
SuccessKeys(r) ==
  UNION {DOMAIN OutputOf(r, j) :
           j \in {i \in 1..Len(CallsOf(r)) : CallsOf(r)[i].outcome = "success"}}

Unresolved ==
  \E k \in 1..Len(config.members) :
    config.members[k].agent_id \notin RegisteredAgents

\* C27: when the agent id of any member, required or optional, does not
\* resolve in the registry, no agent of the team is ever invoked, and a run of
\* the team that returns reports the failure with status error.
C27_ResolutionFailsFast ==
  Unresolved =>
    /\ calls = <<>>
    /\ \A r \in Runs : tpc[r] = "returned" => tresult[r].status = "error"

\* ----------------------------------------------------------------------
\* Properties of the lifecycle events
\* ----------------------------------------------------------------------
TaskEvents == {"agent_task_completed", "agent_task_failed"}
\* The place of an event type in the lifecycle of one execution.
EventRank(type) ==
  CASE type = "workflow_created" -> 1
    [] type = "workflow_started" -> 2
    [] type \in TaskEvents -> 3
    [] type = "workflow_finished" -> 4
\* The number of task events among the events of workflow w.
TaskEventCount(em, w) ==
  Cardinality({i \in 1..Len(em[w]) : em[w][i].type \in TaskEvents})
\* The step logs an event of workflow w.
Logs(w) == Len(emitted'[w]) = Len(emitted[w]) + 1
LoggedEvent(w) == emitted'[w][Len(emitted'[w])]

\* C28: with every id delivered once, the events of a workflow are logged in
\* lifecycle order: workflow_created, workflow_started, the task events,
\* workflow_finished, each of the three workflow events at most once and
\* nothing after workflow_finished; the k-th task event is logged by the
\* iteration of task k; and workflow_finished is logged when the row already
\* holds the results of the execution and a terminal status, which is the
\* status the event carries.
C28_EventOrder ==
  /\ [](\A w \in WorkflowIds :
          \A i, j \in 1..Len(emitted[w]) :
            i < j =>
              /\ EventRank(emitted[w][i].type) <= EventRank(emitted[w][j].type)
              /\ emitted[w][i].type = emitted[w][j].type
                   => emitted[w][i].type \in TaskEvents)
  /\ [][\A p \in Consumers :
          LET w == wid[p] IN
          pc'[p] # pc[p] /\ w \in WorkflowIds /\ Logs(w) =>
            /\ LoggedEvent(w).type \in TaskEvents
                 => /\ pc[p] = "task"
                    /\ TaskEventCount(emitted', w) = idx[p]
            /\ LoggedEvent(w).type = "workflow_finished"
                 => /\ pc[p] = "log_finished"
                    /\ store[w].status \in Terminal
                    /\ store[w].status = LoggedEvent(w).status
                    /\ store[w].results = json_dumps(results[p])
                    /\ store' = store]_vars
C28_Witness ==
  \E w \in WorkflowIds :
    /\ Len(emitted[w]) = 5
    /\ emitted[w][3].type = "agent_task_completed"
    /\ emitted[w][4].type = "agent_task_failed"
    /\ emitted[w][5] = Event("workflow_finished", "failed")
    /\ store[w].status = "failed"

\* The decoded results and tasks columns of the row of workflow w.
StoredResults(w) == json_loads(store[w].results)
StoredTasks(w) == json_loads(store[w].tasks)

\* C29: with every id delivered once, a row with status completed holds one
\* result per task, in task order; a row with status failed holds fewer
\* results than tasks, in task order; and once the status is completed or
\* failed the stored results never change.
C29_ResultsBeforeStatus ==
  /\ [](\A w \in WorkflowIds :
          HasRow(w) /\ store[w].status \in Terminal =>
            /\ \A i \in 1..Len(StoredResults(w)) : StoredResults(w)[i].task = i
            /\ store[w].status = "completed"
                 => Len(StoredResults(w)) = Len(StoredTasks(w))
            /\ store[w].status = "failed"
                 => Len(StoredResults(w)) < Len(StoredTasks(w)))
  /\ [][\A w \in WorkflowIds :
          HasRow(w) /\ store[w].status \in Terminal
            => store'[w].results = store[w].results]_vars
C29_Witness ==
  \E w \in WorkflowIds :
    /\ HasRow(w) /\ store[w].status = "failed"
    /\ Len(StoredTasks(w)) = 2 /\ Len(StoredResults(w)) = 1
    /\ \E p \in Consumers : wid[p] = w /\ pc[p] = "done"

\* ----------------------------------------------------------------------
\* Properties of the rate limiter
\* ----------------------------------------------------------------------
\* No window of the given length, ending at a recorded time, holds more than
\* limit of the times ts; a window of W seconds ending at t is (t - W, t].
WithinLimit(ts, window_seconds, limit) ==
  \A i \in 1..Len(ts) :
    Cardinality({j \in 1..Len(ts) :
                   ts[j] > ts[i] - window_seconds /\ ts[j] <= ts[i]}) <= limit
\* list holds the last entries of ts, in the same order.
SuffixOf(list, ts) ==
  /\ Len(list) <= Len(ts)
  /\ list = SubSeq(ts, Len(ts) - Len(list) + 1, Len(ts))
\* The step changes what the limiter holds for client c.
Touches(c) ==
  \/ _minute_requests'[c] # _minute_requests[c]
  \/ _hour_requests'[c] # _hour_requests[c]
  \/ admitted'[c] # admitted[c]

\* C30: for every client, the admitted requests number at most
\* requests_per_minute in any 60-second window, requests_per_hour in any
\* 3600-second window and burst_limit in any 5-second window; the lists of
\* the limiter hold times of admitted requests only, and a call that rejects
\* adds no entry to them; and a call changes what the limiter holds for one
\* client only.
C30_RateLimits ==
  /\ [](\A c \in Clients :
          /\ WithinLimit(admitted[c], MinuteWindow, requests_per_minute)
          /\ WithinLimit(admitted[c], HourWindow, requests_per_hour)
          /\ WithinLimit(admitted[c], BurstWindow, burst_limit)
          /\ SuffixOf(_minute_requests[c], admitted[c])
          /\ SuffixOf(_hour_requests[c], admitted[c]))
  /\ [][/\ ncalls' = ncalls + 1 /\ info' # "allowed" =>
             \A c \in Clients :
               /\ admitted'[c] = admitted[c]
               /\ Len(_minute_requests'[c]) <= Len(_minute_requests[c])
               /\ Len(_hour_requests'[c]) <= Len(_hour_requests[c])
        /\ \A c, other \in Clients :
             Touches(c) /\ Touches(other) => c = other]_vars
C30_Witness ==
  /\ Len(admitted["c1"]) = requests_per_hour
  /\ Len(_minute_requests["c1"]) < requests_per_minute
  /\ info = "hour"

====
